---------------------------- MODULE Spec2Model ----------------------------
(***************************************************************************)
(* A model of the CI/CD failure resolver (ci_failure_resolver.py and its   *)
(* runner run_resolver.py).                                                *)
(*                                                                         *)
(* Texts (logs, run names, action references, file names, diagnoses and    *)
(* report lines) are TLA+ strings, and the string operations the program   *)
(* uses (`in`, lower, title, replace, splitext, startswith, join) are      *)
(* computed character by character.                                        *)
(***************************************************************************)
EXTENDS Naturals, Sequences, FiniteSets, TLC

VARIABLES
    pc,             \* position of the running program
    cfg,            \* what main resolved: entry point, dry-run flag, token
    exitStatus,     \* process exit status, read once pc = "exit"
    returned,       \* value returned by run_resolution_cycle / printed summary
    netCalls,       \* HTTP GETs issued so far, by endpoint
    failed_runs,    \* the list get_failed_runs returned
    runIdx,         \* index of the next run analyze_failure_patterns handles
    patterns,       \* the six buckets of analyze_failure_patterns
    fixes,          \* the list generate_fixes returned
    fixIdx,         \* index of the next fix apply_fixes handles
    fix_results,    \* the results dict of apply_fixes, in insertion order
    invoked,        \* history: every call of a fix routine and what it returned
    analyzed,       \* history: the log text read for each failed job
    files0,         \* history: the workflow documents when the program started
    fixes_applied,  \* self.fixes_applied
    files,          \* the three workflow documents on disk
    reportFiles,    \* report files written by run_resolution_cycle
    logs,           \* input text of a classifier called on its own
    diagnosis,      \* what that classifier returned
    tree,           \* the working directory tree the language detector walks
    detected        \* what _detect_repository_languages returned

vars == <<pc, cfg, exitStatus, returned, netCalls, failed_runs, runIdx,
          patterns, fixes, fixIdx, fix_results, invoked, analyzed, files0,
          fixes_applied, files, reportFiles, logs, diagnosis, tree, detected>>

-----------------------------------------------------------------------------
(* Bounds of the model.                                                    *)

MaxLogLines == 2
MaxRuns == 1
MaxJobs == 1
MaxTreeFiles == 2
MaxDocJobs == 1
MaxSteps == 1
MaxFixCalls == 2
MaxAnalyzeJobs == 2

-----------------------------------------------------------------------------
(* Python's string operations.                                             *)

\* needle in hay
Contains(needle, hay) ==
    \E i \in 1..(Len(hay) + 1 - Len(needle)) :
        SubSeq(hay, i, i + Len(needle) - 1) = needle

\* hay.startswith(prefix)
StartsWith(hay, prefix) ==
    /\ Len(prefix) <= Len(hay)
    /\ SubSeq(hay, 1, Len(prefix)) = prefix

UpperLetters == "ABCDEFGHIJKLMNOPQRSTUVWXYZ"
LowerLetters == "abcdefghijklmnopqrstuvwxyz"

UpperSet == {SubSeq(UpperLetters, i, i) : i \in 1..Len(UpperLetters)}
LowerSet == {SubSeq(LowerLetters, i, i) : i \in 1..Len(LowerLetters)}

\* The lower-case letter of each upper-case letter, and the reverse.
ToLower ==
    [c \in UpperSet |->
        LET i == CHOOSE k \in 1..Len(UpperLetters) : SubSeq(UpperLetters, k, k) = c
        IN  SubSeq(LowerLetters, i, i)]

ToUpper ==
    [c \in LowerSet |->
        LET i == CHOOSE k \in 1..Len(LowerLetters) : SubSeq(LowerLetters, k, k) = c
        IN  SubSeq(UpperLetters, i, i)]

LowerChar(c) == IF c \in UpperSet THEN ToLower[c] ELSE c

UpperChar(c) == IF c \in LowerSet THEN ToUpper[c] ELSE c

IsLetter(c) == c \in UpperSet \/ c \in LowerSet

\* The characters lo..hi of s, each replaced by Char(s, i).  (The range is
\* halved so that long texts do not nest deeply.)
RECURSIVE MapChars(_, _, _, _)
MapChars(Char(_, _), s, lo, hi) ==
    IF lo > hi THEN ""
    ELSE IF lo = hi THEN Char(s, lo)
    ELSE LET mid == (lo + hi) \div 2
         IN  MapChars(Char, s, lo, mid) \o MapChars(Char, s, mid + 1, hi)

\* s.lower()
Lower(s) == MapChars(LAMBDA t, i : LowerChar(SubSeq(t, i, i)), s, 1, Len(s))

\* s.replace(old, new) for a one-character old
Replace(s, old, new) ==
    MapChars(LAMBDA t, i : IF SubSeq(t, i, i) = old THEN new ELSE SubSeq(t, i, i),
             s, 1, Len(s))

\* s.title(): a letter after a non-letter is upper-cased, any other lowered
Title(s) ==
    MapChars(LAMBDA t, i : IF i > 1 /\ IsLetter(SubSeq(t, i - 1, i - 1))
                           THEN LowerChar(SubSeq(t, i, i))
                           ELSE UpperChar(SubSeq(t, i, i)),
             s, 1, Len(s))

\* sep.join(lines)
RECURSIVE Join(_, _)
Join(lines, sep) ==
    IF lines = <<>> THEN ""
    ELSE IF Len(lines) = 1 THEN lines[1]
    ELSE lines[1] \o sep \o Join(Tail(lines), sep)

\* All sequences over S of length at most n.
RECURSIVE SeqsUpTo(_, _)
SeqsUpTo(S, n) ==
    IF n = 0 THEN {<<>>}
    ELSE LET shorter == SeqsUpTo(S, n - 1)
         IN  shorter \cup {Append(q, x) : q \in shorter, x \in S}

-----------------------------------------------------------------------------
(* The log classifiers.                                                    *)

\* if vendor in logs: first of the three phrases; else unknown
_analyze_readme_failure(text) ==
    IF Contains("jamesgeorge007/github-activity-readme", text)
       /\ Contains("Error: Request failed", text)
    THEN "API request failure - possibly rate limited or token issue"
    ELSE IF Contains("jamesgeorge007/github-activity-readme", text)
            /\ Contains("Error: Cannot read", text)
    THEN "README file access issue - check file permissions"
    ELSE IF Contains("jamesgeorge007/github-activity-readme", text)
            /\ Contains("Error: No recent activity", text)
    THEN "No recent activity found - this might be expected"
    ELSE "Unknown README workflow failure"

\* _analyze_codeql_failure with the python alternative of line 131 left out.
CodeqlJavascriptOnly(text) ==
    IF Contains("No source code was seen during the build", text)
    THEN "No source code found for specified languages"
    ELSE IF Contains("Language 'javascript' not found", text)
    THEN "Specified languages not present in repository"
    ELSE IF Contains("Autobuild failed", text)
    THEN "Autobuild process failed - may need manual build steps"
    ELSE "Unknown CodeQL failure"

_analyze_codeql_failure(text) ==
    IF Contains("No source code was seen during the build", text)
    THEN "No source code found for specified languages"
    ELSE IF Contains("Language 'javascript' not found", text)
            \/ Contains("Language 'python' not found", text)
    THEN "Specified languages not present in repository"
    ELSE IF Contains("Autobuild failed", text)
    THEN "Autobuild process failed - may need manual build steps"
    ELSE "Unknown CodeQL failure"

_analyze_metrics_failure(text) ==
    IF Contains("lowlighter/metrics", text)
       /\ Contains("Error: Request failed", text)
    THEN "Metrics API request failed"
    ELSE IF Contains("lowlighter/metrics", text)
            /\ Contains("Error: Invalid token", text)
    THEN "Invalid or insufficient token permissions"
    ELSE IF Contains("lowlighter/metrics", text)
            /\ Contains("Error: Rate limit", text)
    THEN "Rate limit exceeded"
    ELSE "Unknown metrics failure"

-----------------------------------------------------------------------------
(* Values the program starts from.                                         *)

PatternKeys ==
    <<"profile_readme_failures", "codeql_failures", "metrics_failures",
      "permission_errors", "action_version_issues", "token_issues">>

KeySet == {PatternKeys[i] : i \in 1..Len(PatternKeys)}

\* the patterns dict analyze_failure_patterns starts from
EmptyPatterns == [k \in KeySet |-> <<>>]

NoConfig == [entry |-> "", dry_run |-> FALSE, github_token |-> ""]

NoCalls == [runs |-> 0, jobs |-> 0, logs |-> 0]

NoDiagnosis == [by |-> "", text |-> ""]

NoFiles == [p \in {} |-> ""]

\* The orchestrator's variables before main has run.
MainIdle ==
    /\ cfg = NoConfig
    /\ exitStatus = 0
    /\ returned = ""
    /\ netCalls = NoCalls
    /\ failed_runs = <<>>
    /\ runIdx = 1
    /\ patterns = EmptyPatterns
    /\ fixes = <<>>
    /\ fixIdx = 1
    /\ fix_results = <<>>
    /\ invoked = <<>>
    /\ analyzed = <<>>
    /\ fixes_applied = <<>>
    /\ reportFiles = 0

mainVars == <<cfg, exitStatus, returned, netCalls, failed_runs, runIdx,
              patterns, fixes, fixIdx, fix_results, invoked, analyzed, files0,
              fixes_applied, reportFiles>>

-----------------------------------------------------------------------------
(* The classifiers applied to log texts.                                   *)

\* Lines a job log is made of.
LogLines ==
    { "Error: Request failed with status 403",
      "Error: Cannot read property",
      "Error: No recent activity",
      "Run jamesgeorge007/github-activity-readme@master",
      "No source code was seen during the build",
      "Language 'python' not found in repository",
      "Language 'javascript' not found",
      "Autobuild failed",
      "Run lowlighter/metrics@latest",
      "Error: Invalid token",
      "Error: Rate limit exceeded",
      "permission denied",
      "403 Forbidden",
      "Action actions/checkout@v1 is deprecated",
      "Token expired",
      "build finished" }

LogTexts == {Join(q, "\n") : q \in SeqsUpTo(LogLines, MaxLogLines)}

InitClassify ==
    /\ pc = "input"
    /\ logs \in LogTexts
    /\ diagnosis = NoDiagnosis
    /\ MainIdle
    /\ files = NoFiles
    /\ files0 = files
    /\ tree = <<>>
    /\ detected = <<>>

AnalyzeReadme ==
    /\ pc = "input"
    /\ diagnosis' = [by |-> "readme", text |-> _analyze_readme_failure(logs)]
    /\ pc' = "classified"
    /\ UNCHANGED <<mainVars, files, logs, tree, detected>>

AnalyzeCodeql ==
    /\ pc = "input"
    /\ diagnosis' = [by |-> "codeql", text |-> _analyze_codeql_failure(logs)]
    /\ pc' = "classified"
    /\ UNCHANGED <<mainVars, files, logs, tree, detected>>

AnalyzeMetrics ==
    /\ pc = "input"
    /\ diagnosis' = [by |-> "metrics", text |-> _analyze_metrics_failure(logs)]
    /\ pc' = "classified"
    /\ UNCHANGED <<mainVars, files, logs, tree, detected>>

NextClassify == AnalyzeReadme \/ AnalyzeCodeql \/ AnalyzeMetrics

SpecClassify == InitClassify /\ [][NextClassify]_vars

-----------------------------------------------------------------------------
(* Claims about the classifiers.                                           *)

ReadmePhrases ==
    { "Error: Request failed", "Error: Cannot read", "Error: No recent activity" }

CatalogPhrases ==
    ReadmePhrases \cup
    { "jamesgeorge007/github-activity-readme",
      "No source code was seen during the build",
      "Language 'javascript' not found", "Language 'python' not found",
      "Autobuild failed", "lowlighter/metrics", "Error: Invalid token",
      "Error: Rate limit" }

OnlyPhrase(phrase, text) ==
    /\ Contains(phrase, text)
    /\ \A other \in CatalogPhrases \ {phrase} : ~Contains(other, text)

\* C1: the readme classifier answers "API request failure" for every text
\* with "Error: Request failed" and "README file access issue" for every text
\* with "Error: Cannot read", also when the text holds no other catalog
\* phrase (so does not name the readme-activity action).
C1_ReadmePhraseDecides ==
    (pc = "classified" /\ diagnosis.by = "readme") =>
        /\ OnlyPhrase("Error: Request failed", logs)
              => Contains("API request failure", diagnosis.text)
        /\ OnlyPhrase("Error: Cannot read", logs)
              => Contains("README file access issue", diagnosis.text)

\* C7 as stated: the CodeQL classifier answers "No source code found" for
\* every text with the no-source phrase and "not present in repository" for
\* every text with "Language 'python' not found".
C7_CodeqlPhraseDecides ==
    (pc = "classified" /\ diagnosis.by = "codeql") =>
        /\ Contains("No source code was seen during the build", logs)
              => Contains("No source code found", diagnosis.text)
        /\ Contains("Language 'python' not found", logs)
              => Contains("not present in repository", diagnosis.text)

\* C7 amended: the CodeQL classifier answers "No source code found" for
\* every text with the no-source phrase, and "not present in repository"
\* for every text with "Language 'python' not found" that does not also
\* hold the no-source phrase.
C7_CodeqlFirstPhraseWins ==
    (pc = "classified" /\ diagnosis.by = "codeql") =>
        /\ Contains("No source code was seen during the build", logs)
              => Contains("No source code found", diagnosis.text)
        /\ ( /\ Contains("Language 'python' not found", logs)
             /\ ~Contains("No source code was seen during the build", logs) )
              => Contains("not present in repository", diagnosis.text)

C7_Witness ==
    /\ pc = "classified"
    /\ diagnosis.by = "codeql"
    /\ Contains("Language 'python' not found", logs)
    /\ Contains("Autobuild failed", logs)
    /\ diagnosis.text = "Specified languages not present in repository"

-----------------------------------------------------------------------------
(* The repository language detector.                                       *)

\* supported_languages, in the order the dict lists them
SupportedLanguages ==
    << [lang |-> "javascript", extensions |-> {".js", ".jsx", ".ts", ".tsx", ".vue"}],
       [lang |-> "python",     extensions |-> {".py"}],
       [lang |-> "java",       extensions |-> {".java"}],
       [lang |-> "csharp",     extensions |-> {".cs"}],
       [lang |-> "cpp",        extensions |-> {".cpp", ".c", ".cc", ".cxx", ".h", ".hpp"}],
       [lang |-> "go",         extensions |-> {".go"}],
       [lang |-> "ruby",       extensions |-> {".rb"}] >>

\* Index of the last "." of s, 0 when it has none (s.rfind('.')).
LastDot(s) ==
    IF \E i \in 1..Len(s) : SubSeq(s, i, i) = "."
    THEN CHOOSE i \in 1..Len(s) :
             /\ SubSeq(s, i, i) = "."
             /\ \A j \in (i + 1)..Len(s) : SubSeq(s, j, j) # "."
    ELSE 0

\* os.path.splitext(name)[1]: from the last dot on, unless only dots precede it
SplitExt(name) ==
    LET dot == LastDot(name)
    IN  IF dot > 0 /\ \E j \in 1..(dot - 1) : SubSeq(name, j, j) # "."
        THEN SubSeq(name, dot, Len(name))
        ELSE ""

\* The extension compared as the file name spells it.
FileExtCaseSensitive(name) == SplitExt(name)

\* file_ext = os.path.splitext(file)[1].lower()
FileExt(name) == Lower(SplitExt(name))

\* The directories of the working tree: for each path (a sequence of
\* directory names below '.'), its subdirectories in listing order.
Subdirs(path) ==
    IF path = <<>> THEN <<".github", "node_modules", "src">>
    ELSE IF path = <<"node_modules">> THEN <<"lib">>
    ELSE <<>>

DirPaths ==
    { <<>>, <<".github">>, <<"node_modules">>, <<"node_modules", "lib">>, <<"src">> }

FileNames == { "README.md", "test.py", "main.js", "UTIL.PY", "app.tsx", ".py" }

\* A tree is the list of its files, each in a directory; files of one
\* directory are listed in the order they have in the list.
FileEntries == [dir : DirPaths, name : FileNames]

\* (no directory lists one name twice)
Trees ==
    {t \in SeqsUpTo(FileEntries, MaxTreeFiles) :
        \A i, j \in 1..Len(t) : i # j => t[i] # t[j]}

RECURSIVE FilesIn(_, _)
FilesIn(t, path) ==
    IF t = <<>> THEN <<>>
    ELSE (IF t[1].dir = path THEN <<t[1].name>> ELSE <<>>) \o FilesIn(Tail(t), path)

\* The filter misses hidden directories.
KeptDirNoHidden(d) == d # "node_modules"

\* dirs[:] = [d for d in dirs if not d.startswith('.') and d != 'node_modules']
KeptDir(d) == ~StartsWith(d, ".") /\ d # "node_modules"

\* os.walk('.') top-down with the pruning of line 271: the (root, files)
\* pairs in the order the loop sees them.
RECURSIVE WalkFrom(_, _)
RECURSIVE WalkDirs(_, _, _)
WalkDirs(t, path, dirs) ==
    IF dirs = <<>> THEN <<>>
    ELSE (IF KeptDir(dirs[1]) THEN WalkFrom(t, Append(path, dirs[1])) ELSE <<>>)
         \o WalkDirs(t, path, Tail(dirs))

WalkFrom(t, path) ==
    <<[root |-> path, files |-> FilesIn(t, path)]>> \o WalkDirs(t, path, Subdirs(path))

Walk(t) == WalkFrom(t, <<>>)

InSeq(x, q) == \E i \in 1..Len(q) : q[i] = x

\* for lang, extensions in supported_languages.items(): ... detected.append(lang)
RECURSIVE DetectFile(_, _, _)
DetectFile(found, ext, langs) ==
    IF langs = <<>> THEN found
    ELSE DetectFile(
             IF ext \in langs[1].extensions /\ ~InSeq(langs[1].lang, found)
             THEN Append(found, langs[1].lang) ELSE found,
             ext, Tail(langs))

RECURSIVE DetectFiles(_, _)
DetectFiles(found, names) ==
    IF names = <<>> THEN found
    ELSE DetectFiles(DetectFile(found, FileExt(names[1]), SupportedLanguages),
                     Tail(names))

RECURSIVE DetectWalk(_, _)
DetectWalk(found, walk) ==
    IF walk = <<>> THEN found
    ELSE DetectWalk(DetectFiles(found, walk[1].files), Tail(walk))

_detect_repository_languages(t) == DetectWalk(<<>>, Walk(t))

InitLang ==
    /\ pc = "tree"
    /\ tree \in Trees
    /\ detected = <<>>
    /\ MainIdle
    /\ files = NoFiles
    /\ files0 = files
    /\ logs = ""
    /\ diagnosis = NoDiagnosis

DetectLanguages ==
    /\ pc = "tree"
    /\ detected' = _detect_repository_languages(tree)
    /\ pc' = "detected"
    /\ UNCHANGED <<mainVars, files, logs, diagnosis, tree>>

NextLang == DetectLanguages

SpecLang == InitLang /\ [][NextLang]_vars

-----------------------------------------------------------------------------
(* Claims about the language detector.                                     *)

LanguageNames == {SupportedLanguages[i].lang : i \in 1..Len(SupportedLanguages)}

ExtensionsOf(lang) ==
    LET i == CHOOSE k \in 1..Len(SupportedLanguages) : SupportedLanguages[k].lang = lang
    IN  SupportedLanguages[i].extensions

\* A directory the walk does not prune: no name on its path is hidden or
\* node_modules.
NonPruned(path) ==
    \A i \in 1..Len(path) : SubSeq(path[i], 1, 1) # "." /\ path[i] # "node_modules"

HasExtensionOf(name, lang) == Lower(SplitExt(name)) \in ExtensionsOf(lang)

Recognised(name) == \E lang \in LanguageNames : HasExtensionOf(name, lang)

\* The files the walk sees, in the order it sees them.
RECURSIVE FlatFiles(_)
FlatFiles(walk) ==
    IF walk = <<>> THEN <<>> ELSE walk[1].files \o FlatFiles(Tail(walk))

FirstSeen(lang, seen) ==
    CHOOSE i \in 1..Len(seen) :
        /\ HasExtensionOf(seen[i], lang)
        /\ \A j \in 1..(i - 1) : ~HasExtensionOf(seen[j], lang)

\* Exactly the languages with a file in a non-pruned directory, each once,
\* in order of first discovery.
DetectedIsPresentLanguages ==
    /\ \A lang \in LanguageNames :
           InSeq(lang, detected) <=>
               \E i \in 1..Len(tree) :
                   NonPruned(tree[i].dir) /\ HasExtensionOf(tree[i].name, lang)
    /\ \A i \in 1..Len(detected) : detected[i] \in LanguageNames
    /\ \A i, j \in 1..Len(detected) : i # j => detected[i] # detected[j]
    /\ \A i, j \in 1..Len(detected) :
           i < j => FirstSeen(detected[i], FlatFiles(Walk(tree)))
                      < FirstSeen(detected[j], FlatFiles(Walk(tree)))

PythonAndJavascriptOnly ==
    /\ InSeq("python", detected)
    /\ InSeq("javascript", detected)
    /\ Len(detected) = 2

\* C6 as stated: the detector returns exactly the supported languages with a
\* file of theirs in a non-pruned directory, once each, in order of first
\* discovery; and for a tree whose only recognised-extension files are
\* test.py and main.js the result is python and javascript, 2 elements.
C6_DetectsLanguages ==
    pc = "detected" =>
        /\ DetectedIsPresentLanguages
        /\ {tree[i].name : i \in {k \in 1..Len(tree) : Recognised(tree[k].name)}}
              = {"test.py", "main.js"}
             => PythonAndJavascriptOnly

\* C6 amended: the same, and for a tree whose only recognised-extension
\* files in non-pruned directories are test.py and main.js the result is
\* python and javascript, 2 elements.
C6_DetectsLanguagesNonPruned ==
    pc = "detected" =>
        /\ DetectedIsPresentLanguages
        /\ {tree[i].name : i \in {k \in 1..Len(tree) :
                  Recognised(tree[k].name) /\ NonPruned(tree[k].dir)}}
              = {"test.py", "main.js"}
             => PythonAndJavascriptOnly

C6_Witness ==
    /\ pc = "detected"
    /\ \E i, j \in 1..Len(tree) :
           /\ i < j
           /\ tree[i] = [dir |-> <<"src">>, name |-> "main.js"]
           /\ tree[j] = [dir |-> <<>>, name |-> "test.py"]
    /\ detected = <<"python", "javascript">>

-----------------------------------------------------------------------------
(* Workflow documents and the files that hold them.                        *)

ReadmePath == ".github/workflows/profile-readme.yml"
CodeqlPath == ".github/workflows/codeql-analysis.yml"
MetricsPath == ".github/workflows/metrics.yml"

WorkflowPaths == {ReadmePath, CodeqlPath, MetricsPath}

\* A job's 'permissions' key: absent, or a mapping of scope to access.
NoPermissions == [present |-> FALSE, grants |-> {}]
ReadOnly == [present |-> TRUE, grants |-> {<<"contents", "read">>}]

\* A job's strategy.matrix: absent, or a mapping with a language list.
NoMatrix == [present |-> FALSE, language |-> <<>>]

\* The 'on' mapping of a document as the repository ships it.
DefaultTriggers == {"push", "schedule"}

EmptyDoc == [on |-> {}, jobs |-> <<>>]

\* A file: absent, present but not loadable as a workflow mapping, or a
\* document.
Absent == [state |-> "absent", doc |-> EmptyDoc]
Corrupt == [state |-> "corrupt", doc |-> EmptyDoc]
Holding(doc) == [state |-> "ok", doc |-> doc]

\* What opening a file for writing and dumping into it can end as: written;
\* refused at open (the file stays as it was); failed after the truncation
\* (the file is left cut short).
WriteOutcomes == {"ok", "denied", "torn"}

\* with open(path, 'w') as f: yaml.dump(workflow, f)
WriteFile(fs, path, doc, w) ==
    IF w = "ok" THEN [fs EXCEPT ![path] = Holding(doc)]
    ELSE IF w = "torn" THEN [fs EXCEPT ![path] = Corrupt]
    ELSE fs

RECURSIVE MapSeq(_, _)
MapSeq(Op(_), q) ==
    IF q = <<>> THEN <<>> ELSE <<Op(q[1])>> \o MapSeq(Op, Tail(q))

-----------------------------------------------------------------------------
(* The fix routines.  Each takes the files, self.fixes_applied and the     *)
(* outcome of its write, and gives its return value, the files and         *)
(* self.fixes_applied after it.                                            *)

\* ioError tells that a write was tried and did not end well.
FixReturn(ok, fs, applied, w) ==
    [ok |-> ok, files |-> fs, applied |-> applied, ioError |-> w # "ok"]

ReadmeAction == "jamesgeorge007/github-activity-readme"

\* The step is rewritten only when its reference is the bare action name.
ReadmeStepExactMatch(step) ==
    IF step.uses = ReadmeAction
    THEN [step EXCEPT !.uses = "jamesgeorge007/github-activity-readme@v1.6.4"]
    ELSE step

\* lines 199-201: pin the step's action reference
ReadmeStep(step) ==
    IF Contains(ReadmeAction, step.uses)
    THEN [step EXCEPT !.uses = "jamesgeorge007/github-activity-readme@v1.6.4"]
    ELSE step

\* lines 198-207 for one job
ReadmeJob(job) ==
    [job EXCEPT
        !.steps = MapSeq(ReadmeStep, job.steps),
        !.permissions =
            IF /\ \E i \in 1..Len(job.steps) : Contains(ReadmeAction, job.steps[i].uses)
               /\ ~job.permissions.present
            THEN [present |-> TRUE, grants |-> {<<"contents", "write">>}]
            ELSE job.permissions]

_fix_profile_readme_workflow(fs, applied, w) ==
    IF fs[ReadmePath].state # "ok" THEN FixReturn(FALSE, fs, applied, "ok")
    ELSE LET old == fs[ReadmePath].doc
             new == [old EXCEPT !.jobs = MapSeq(ReadmeJob, old.jobs)]
         IN  IF w = "ok"
             THEN FixReturn(TRUE, WriteFile(fs, ReadmePath, new, w),
                      Append(applied, "Updated profile README workflow to stable version"),
                      w)
             ELSE FixReturn(FALSE, WriteFile(fs, ReadmePath, new, w), applied, w)

\* str(list) of a list of strings
ListRepr(q) == "[" \o Join(MapSeq(LAMBDA x : "'" \o x \o "'", q), ", ") \o "]"

\* A rewrite that gives the matrix to a job without one as well.
CodeqlJobEveryJob(job, languages) ==
    [job EXCEPT !.matrix = [present |-> TRUE, language |-> languages]]

\* lines 238-240 for one job
CodeqlJob(job, languages) ==
    IF job.matrix.present
    THEN [job EXCEPT !.matrix = [present |-> TRUE, language |-> languages]]
    ELSE job

_fix_codeql_workflow(fs, applied, t, w) ==
    IF fs[CodeqlPath].state # "ok" THEN FixReturn(FALSE, fs, applied, "ok")
    ELSE LET old == fs[CodeqlPath].doc
             detected_languages == _detect_repository_languages(t)
             new == IF detected_languages = <<>>
                    THEN [old EXCEPT !.on = {"workflow_dispatch"}]
                    ELSE [old EXCEPT !.jobs =
                             MapSeq(LAMBDA job : CodeqlJob(job, detected_languages),
                                    old.jobs)]
             note == IF detected_languages = <<>>
                     THEN "Disabled CodeQL workflow - no supported languages detected"
                     ELSE "Updated CodeQL languages to: " \o ListRepr(detected_languages)
         IN  FixReturn(w = "ok", WriteFile(fs, CodeqlPath, new, w),
                       Append(applied, note), w)

BothPermissions ==
    [present |-> TRUE, grants |-> {<<"contents", "write">>, <<"actions", "read">>}]

\* A block written over whatever the job had.
AddPermissionsAlways(job) == [job EXCEPT !.permissions = BothPermissions]

\* lines 329-333: add the block to a job without one
AddPermissions(job) ==
    IF ~job.permissions.present
    THEN [job EXCEPT !.permissions = BothPermissions]
    ELSE job

\* lines 297-301
MetricsStep(step) ==
    IF Contains("lowlighter/metrics", step.uses)
    THEN [step EXCEPT !.uses = "lowlighter/metrics@v3.34", !.continue_on_error = TRUE]
    ELSE step

MetricsJob(job) ==
    LET j == AddPermissions(job)
    IN  [j EXCEPT !.steps = MapSeq(MetricsStep, j.steps)]

_fix_metrics_workflow(fs, applied, w) ==
    IF fs[MetricsPath].state # "ok" THEN FixReturn(FALSE, fs, applied, "ok")
    ELSE LET old == fs[MetricsPath].doc
             new == [old EXCEPT !.jobs = MapSeq(MetricsJob, old.jobs)]
         IN  IF w = "ok"
             THEN FixReturn(TRUE, WriteFile(fs, MetricsPath, new, w),
                      Append(applied,
                          "Updated metrics workflow with proper permissions and error handling"),
                      w)
             ELSE FixReturn(FALSE, WriteFile(fs, MetricsPath, new, w), applied, w)

\* lines 322-341 for one workflow file; ok is FALSE where the routine returns False
PermissionsFile(fs, applied, path, w) ==
    IF fs[path].state = "absent" THEN FixReturn(TRUE, fs, applied, "ok")
    ELSE IF fs[path].state = "corrupt" THEN FixReturn(FALSE, fs, applied, "ok")
    ELSE LET old == fs[path].doc
             new == [old EXCEPT !.jobs = MapSeq(AddPermissions, old.jobs)]
         IN  IF w = "ok"
             THEN FixReturn(TRUE, WriteFile(fs, path, new, w),
                      Append(applied, "Added permissions to " \o path), w)
             ELSE FixReturn(FALSE, WriteFile(fs, path, new, w), applied, w)

\* The two files in the order of workflow_files; w1, w2 are their writes.
_fix_permissions(fs, applied, w1, w2) ==
    LET first == PermissionsFile(fs, applied, ReadmePath, w1)
    IN  IF ~first.ok THEN first
        ELSE PermissionsFile(first.files, first.applied, MetricsPath, w2)

FixNames == {"readme", "codeql", "metrics", "permissions"}

\* The bound method a fix descriptor's 'action' holds, called.
CallFix(name, fs, applied, t, w1, w2) ==
    CASE name = "readme" -> _fix_profile_readme_workflow(fs, applied, w1)
      [] name = "codeql" -> _fix_codeql_workflow(fs, applied, t, w1)
      [] name = "metrics" -> _fix_metrics_workflow(fs, applied, w1)
      [] name = "permissions" -> _fix_permissions(fs, applied, w1, w2)

-----------------------------------------------------------------------------
(* The fix routines applied to workflow files, in any order.               *)

PlainStep(uses) == [uses |-> uses, continue_on_error |-> FALSE]

StepLists(references) == SeqsUpTo({PlainStep(u) : u \in references}, MaxSteps)

ReadmeJobs ==
    [permissions : {NoPermissions, ReadOnly},
     steps : StepLists({"actions/checkout@v4",
                        "jamesgeorge007/github-activity-readme@master"}),
     matrix : {NoMatrix}]

MetricsJobs ==
    [permissions : {NoPermissions, ReadOnly},
     steps : StepLists({"actions/checkout@v4", "lowlighter/metrics@latest"}),
     matrix : {NoMatrix}]

CodeqlJobs ==
    [permissions : {NoPermissions},
     steps : {<<PlainStep("github/codeql-action/analyze@v2")>>},
     matrix : {NoMatrix,
               [present |-> TRUE, language |-> <<"javascript", "python">>],
               [present |-> TRUE, language |-> <<"go">>]}]

FileStates(jobs) ==
    {Absent, Corrupt}
    \cup {Holding(d) : d \in [on : {DefaultTriggers}, jobs : SeqsUpTo(jobs, MaxDocJobs)]}

JobsAt(path) ==
    CASE path = ReadmePath -> ReadmeJobs
      [] path = CodeqlPath -> CodeqlJobs
      [] path = MetricsPath -> MetricsJobs

TypicalReadme ==
    Holding([on |-> DefaultTriggers,
             jobs |-> << [permissions |-> NoPermissions,
                          steps |-> << PlainStep("actions/checkout@v4"),
                                       PlainStep("jamesgeorge007/github-activity-readme@master") >>,
                          matrix |-> NoMatrix] >>])

TypicalCodeql ==
    Holding([on |-> DefaultTriggers,
             jobs |-> << [permissions |-> ReadOnly,
                          steps |-> << PlainStep("github/codeql-action/analyze@v2") >>,
                          matrix |-> [present |-> TRUE,
                                      language |-> <<"javascript", "python">>]] >>])

TypicalMetrics ==
    Holding([on |-> DefaultTriggers,
             jobs |-> << [permissions |-> NoPermissions,
                          steps |-> << PlainStep("lowlighter/metrics@latest") >>,
                          matrix |-> NoMatrix] >>])

TypicalFiles ==
    [p \in WorkflowPaths |->
        CASE p = ReadmePath -> TypicalReadme
          [] p = CodeqlPath -> TypicalCodeql
          [] p = MetricsPath -> TypicalMetrics]

\* One workflow file in any state and the other two as they typically are,
\* or none of the three.
\* No workflow file at all.
NoWorkflows == [p \in WorkflowPaths |-> Absent]

FixFileSystems ==
    {NoWorkflows}
    \cup UNION {{[TypicalFiles EXCEPT ![p] = st] : st \in FileStates(JobsAt(p))} :
                    p \in WorkflowPaths}

RepoTrees ==
    { <<>>,
      <<[dir |-> <<>>, name |-> "test.py"]>>,
      <<[dir |-> <<"src">>, name |-> "main.js"], [dir |-> <<>>, name |-> "test.py"]>> }

InitFix ==
    /\ pc = "fixing"
    /\ files \in FixFileSystems
    /\ files0 = files
    /\ tree \in RepoTrees
    /\ MainIdle
    /\ logs = ""
    /\ diagnosis = NoDiagnosis
    /\ detected = <<>>

\* One call of a fix routine on the files as they are.
Called(name, r) ==
    /\ files' = r.files
    /\ fixes_applied' = r.applied
    /\ invoked' = Append(invoked, [fix |-> name, ok |-> r.ok, ioError |-> r.ioError])
    /\ UNCHANGED <<pc, cfg, exitStatus, returned, netCalls, failed_runs, runIdx,
                   patterns, fixes, fixIdx, fix_results, analyzed, files0,
                   reportFiles, logs, diagnosis, tree, detected>>

FixReadme ==
    /\ pc = "fixing" /\ Len(invoked) < MaxFixCalls
    /\ \E w \in WriteOutcomes :
           Called("readme", _fix_profile_readme_workflow(files, fixes_applied, w))

FixCodeql ==
    /\ pc = "fixing" /\ Len(invoked) < MaxFixCalls
    /\ \E w \in WriteOutcomes :
           Called("codeql", _fix_codeql_workflow(files, fixes_applied, tree, w))

FixMetrics ==
    /\ pc = "fixing" /\ Len(invoked) < MaxFixCalls
    /\ \E w \in WriteOutcomes :
           Called("metrics", _fix_metrics_workflow(files, fixes_applied, w))

FixPermissions ==
    /\ pc = "fixing" /\ Len(invoked) < MaxFixCalls
    /\ \E w1, w2 \in WriteOutcomes :
           Called("permissions", _fix_permissions(files, fixes_applied, w1, w2))

NextFix == FixReadme \/ FixCodeql \/ FixMetrics \/ FixPermissions

SpecFix == InitFix /\ [][NextFix]_vars

-----------------------------------------------------------------------------
(* Claims about the fix routines.                                          *)

LastCall == invoked[Len(invoked)]

\* This step is a call of the profile-readme fix that returns success.
ReadmeFixSucceeds ==
    /\ Len(invoked') = Len(invoked) + 1
    /\ invoked'[Len(invoked')].fix = "readme"
    /\ invoked'[Len(invoked')].ok

\* C5: a successful application of the profile-readme fix leaves every step
\* that referenced the readme-activity action with the pinned reference
\* ...@v1.6.4, and a second application right after a first changes no
\* step's reference and no job's permissions block.
C5_ReadmeFixIdempotent ==
    [][ReadmeFixSucceeds =>
          LET old == files[ReadmePath].doc.jobs
              new == files'[ReadmePath].doc.jobs
          IN  /\ files'[ReadmePath].state = "ok"
              /\ Len(new) = Len(old)
              /\ \A j \in 1..Len(old) :
                     /\ Len(new[j].steps) = Len(old[j].steps)
                     /\ \A i \in 1..Len(old[j].steps) :
                            Contains("jamesgeorge007/github-activity-readme",
                                     old[j].steps[i].uses)
                              => new[j].steps[i].uses
                                   = "jamesgeorge007/github-activity-readme@v1.6.4"
              /\ (Len(invoked) > 0 /\ LastCall.fix = "readme" /\ LastCall.ok)
                   => \A j \in 1..Len(old) :
                          /\ new[j].permissions = old[j].permissions
                          /\ \A i \in 1..Len(old[j].steps) :
                                 new[j].steps[i].uses = old[j].steps[i].uses
       ]_vars

C5_Witness ==
    /\ Len(invoked) = 2
    /\ \A k \in 1..2 : invoked[k].fix = "readme" /\ invoked[k].ok
    /\ \E j \in 1..Len(files[ReadmePath].doc.jobs) :
           LET job == files[ReadmePath].doc.jobs[j]
           IN  /\ job.permissions = [present |-> TRUE, grants |-> {<<"contents", "write">>}]
               /\ \E i \in 1..Len(job.steps) :
                      job.steps[i].uses = "jamesgeorge007/github-activity-readme@v1.6.4"

-----------------------------------------------------------------------------
(* The forge client.  A response is what one HTTP GET ends as: ok is FALSE *)
(* for a transport error or an error status (requests.RequestException).   *)

\* The id the forge gives the i-th run of a listing.
RunId(i) == "10" \o SubSeq("123456789", i, i)

RunNames == { "Update README with Recent Activity", "CodeQL", "Metrics", "CI" }

\* Logs the forge holds for failed jobs.
ForgeLogs ==
    { "permission denied\nRun jamesgeorge007/github-activity-readme@master\nError: Request failed with status 403",
      "Run lowlighter/metrics@latest\nError: Invalid token" }

RECURSIVE NumberRuns(_, _)
NumberRuns(names, i) ==
    IF names = <<>> THEN <<>>
    ELSE <<[id |-> RunId(i), name |-> names[1]]>> \o NumberRuns(Tail(names), i + 1)

RunListings == {NumberRuns(names, 1) : names \in SeqsUpTo(RunNames, MaxRuns)}

RunsResponses ==
    {[ok |-> FALSE, workflow_runs |-> <<>>]}
    \cup {[ok |-> TRUE, workflow_runs |-> runs] : runs \in RunListings}

\* A job of a run with the response to the GET of its log.
ForgeJobs ==
    {[conclusion |-> "success", log |-> [ok |-> TRUE, text |-> ""]]}
    \cup {[conclusion |-> "failure", log |-> [ok |-> TRUE, text |-> t]] : t \in ForgeLogs}
    \cup {[conclusion |-> "failure", log |-> [ok |-> FALSE, text |-> ""]]}

JobsResponses ==
    {[ok |-> FALSE, jobs |-> <<>>]}
    \cup {[ok |-> TRUE, jobs |-> jobs] : jobs \in SeqsUpTo(ForgeJobs, MaxJobs)}

get_failed_runs(response) == IF response.ok THEN response.workflow_runs ELSE <<>>

get_run_jobs(response) == IF response.ok THEN response.jobs ELSE <<>>

get_job_logs(response) == IF response.ok THEN response.text ELSE ""

-----------------------------------------------------------------------------
(* analyze_failure_patterns: the body of the loop over the jobs of a run.  *)

AppendTo(buckets, key, diag) == [buckets EXCEPT ![key] = Append(@, diag)]

\* lines 97-102
Categorize(buckets, workflow_name, text) ==
    IF Contains("readme", workflow_name) /\ Contains("activity", workflow_name)
    THEN AppendTo(buckets, "profile_readme_failures", _analyze_readme_failure(text))
    ELSE IF Contains("codeql", workflow_name)
    THEN AppendTo(buckets, "codeql_failures", _analyze_codeql_failure(text))
    ELSE IF Contains("metrics", workflow_name) \/ Contains("stats", workflow_name)
    THEN AppendTo(buckets, "metrics_failures", _analyze_metrics_failure(text))
    ELSE buckets

\* A permission check that knows the word "forbidden" only.
CheckPermissionForbiddenOnly(buckets, id, lower) ==
    IF Contains("forbidden", lower)
    THEN AppendTo(buckets, "permission_errors", "Run " \o id \o ": Permission denied")
    ELSE buckets

\* lines 105-106; lower is logs.lower()
CheckPermission(buckets, id, lower) ==
    IF Contains("permission", lower) \/ Contains("forbidden", lower)
    THEN AppendTo(buckets, "permission_errors", "Run " \o id \o ": Permission denied")
    ELSE buckets

\* lines 108-109
CheckActionVersion(buckets, id, lower) ==
    IF /\ Contains("action", lower)
       /\ (Contains("deprecated", lower) \/ Contains("not found", lower))
    THEN AppendTo(buckets, "action_version_issues", "Run " \o id \o ": Action version issue")
    ELSE buckets

\* A token check written as an elif of the permission check.
CheckTokenUnlessPermission(buckets, id, lower) ==
    IF /\ ~(Contains("permission", lower) \/ Contains("forbidden", lower))
       /\ Contains("token", lower)
       /\ (Contains("invalid", lower) \/ Contains("expired", lower))
    THEN AppendTo(buckets, "token_issues", "Run " \o id \o ": Token issue")
    ELSE buckets

\* lines 111-112
CheckToken(buckets, id, lower) ==
    IF /\ Contains("token", lower)
       /\ (Contains("invalid", lower) \/ Contains("expired", lower))
    THEN AppendTo(buckets, "token_issues", "Run " \o id \o ": Token issue")
    ELSE buckets

\* lines 93-112 for one job of a run whose lowered name is workflow_name
AnalyzeJob(buckets, id, workflow_name, job) ==
    IF job.conclusion = "failure"
    THEN LET text == get_job_logs(job.log)
             lower == Lower(text)
         IN  CheckToken(
                 CheckActionVersion(
                     CheckPermission(Categorize(buckets, workflow_name, text),
                                     id, lower),
                     id, lower),
                 id, lower)
    ELSE buckets

RECURSIVE AnalyzeJobs(_, _, _, _)
AnalyzeJobs(buckets, id, workflow_name, jobs) ==
    IF jobs = <<>> THEN buckets
    ELSE AnalyzeJobs(AnalyzeJob(buckets, id, workflow_name, jobs[1]),
                     id, workflow_name, Tail(jobs))

\* lines 89-112 for one run and the jobs listed for it
AnalyzeRunJobs(buckets, run, jobs) ==
    AnalyzeJobs(buckets, run.id, Lower(run.name), jobs)

FailedJobs(jobs) == {i \in 1..Len(jobs) : jobs[i].conclusion = "failure"}

-----------------------------------------------------------------------------
(* generate_fixes, apply_fixes, generate_report.                           *)

ReadmeFixDescriptor ==
    [type |-> "workflow_update", file |-> ReadmePath,
     description |-> "Update profile README workflow", action |-> "readme"]

CodeqlFixDescriptor ==
    [type |-> "workflow_update", file |-> CodeqlPath,
     description |-> "Fix CodeQL language configuration", action |-> "codeql"]

MetricsFixDescriptor ==
    [type |-> "workflow_update", file |-> MetricsPath,
     description |-> "Update metrics workflow configuration", action |-> "metrics"]

PermissionFixDescriptor ==
    [type |-> "permission_fix",
     description |-> "Add missing workflow permissions", action |-> "permissions"]

\* A planner that puts the permission fix first.
GenerateFixesPermissionFirst(buckets) ==
    (IF buckets["permission_errors"] # <<>> THEN <<PermissionFixDescriptor>> ELSE <<>>)
    \o (IF buckets["profile_readme_failures"] # <<>> THEN <<ReadmeFixDescriptor>> ELSE <<>>)
    \o (IF buckets["codeql_failures"] # <<>> THEN <<CodeqlFixDescriptor>> ELSE <<>>)
    \o (IF buckets["metrics_failures"] # <<>> THEN <<MetricsFixDescriptor>> ELSE <<>>)

\* A planner that also answers token issues with the permission fix.
GenerateFixesTokenToo(buckets) ==
    (IF buckets["profile_readme_failures"] # <<>> THEN <<ReadmeFixDescriptor>> ELSE <<>>)
    \o (IF buckets["codeql_failures"] # <<>> THEN <<CodeqlFixDescriptor>> ELSE <<>>)
    \o (IF buckets["metrics_failures"] # <<>> THEN <<MetricsFixDescriptor>> ELSE <<>>)
    \o (IF buckets["permission_errors"] # <<>> \/ buckets["token_issues"] # <<>>
        THEN <<PermissionFixDescriptor>> ELSE <<>>)

generate_fixes(buckets) ==
    (IF buckets["profile_readme_failures"] # <<>> THEN <<ReadmeFixDescriptor>> ELSE <<>>)
    \o (IF buckets["codeql_failures"] # <<>> THEN <<CodeqlFixDescriptor>> ELSE <<>>)
    \o (IF buckets["metrics_failures"] # <<>> THEN <<MetricsFixDescriptor>> ELSE <<>>)
    \o (IF buckets["permission_errors"] # <<>> THEN <<PermissionFixDescriptor>> ELSE <<>>)

\* results[key] = value on a dict kept in insertion order
DictSet(dict, key, value) ==
    IF \E i \in 1..Len(dict) : dict[i].key = key
    THEN [i \in 1..Len(dict) |->
             IF dict[i].key = key THEN [key |-> key, value |-> value] ELSE dict[i]]
    ELSE Append(dict, [key |-> key, value |-> value])

\* lines 376-381
RECURSIVE IssueSections(_, _)
IssueSections(buckets, keys) ==
    IF keys = <<>> THEN <<>>
    ELSE (IF buckets[keys[1]] # <<>>
          THEN <<"### " \o Title(Replace(keys[1], "_", " "))>>
               \o MapSeq(LAMBDA issue : "- " \o issue, buckets[keys[1]])
               \o <<"">>
          ELSE <<>>)
         \o IssueSections(buckets, Tail(keys))

\* The report's lines; the function returns them joined by newlines.  The
\* timestamp is left as its format, the status marks as their words.
ReportLines(buckets, results, applied) ==
    << "# CI/CD Failure Resolution Report",
       "Generated: %Y-%m-%d %H:%M:%S",
       "Repository: xepoctpat/xepoctpat",
       "",
       "## Issues Identified" >>
    \o IssueSections(buckets, PatternKeys)
    \o << "## Fixes Applied" >>
    \o MapSeq(LAMBDA e : "- " \o (IF e.value THEN "SUCCESS" ELSE "FAILED")
                            \o ": " \o e.key,
              results)
    \o << "" >>
    \o (IF applied # <<>>
        THEN << "## Additional Changes" >>
             \o MapSeq(LAMBDA fix : "- " \o fix, applied) \o << "" >>
        ELSE <<>>)
    \o << "## Recommendations",
          "- Monitor workflow runs for the next 24-48 hours",
          "- Consider adding workflow status badges to README",
          "- Set up notifications for workflow failures",
          "- Review and update action versions quarterly" >>

generate_report(buckets, results, applied) ==
    Join(ReportLines(buckets, results, applied), "\n")

-----------------------------------------------------------------------------
(* The program: main of either entry point, then the resolution cycle or   *)
(* the dry run.                                                            *)

EntryPoints == {"run_resolver", "ci_failure_resolver"}

\* --token and GITHUB_TOKEN: "" stands for a value that is unset or empty
\* (both are false to `not github_token`).
TokenInputs == {"", "ghp_token"}

\* run_resolver.py line 40; ci_failure_resolver.py line 441
ResolveToken(entry, flag, env) ==
    IF entry = "run_resolver" /\ flag # "" THEN flag ELSE env

\* Exit status of an entry point that finds no token.
NoTokenStatus(entry) == IF entry = "run_resolver" THEN 1 ELSE 0

CycleFileSystems ==
    {fs \in [WorkflowPaths -> {Absent, Corrupt, TypicalReadme, TypicalCodeql, TypicalMetrics}] :
        /\ fs[ReadmePath] \in {Absent, TypicalReadme}
        /\ fs[CodeqlPath] \in {TypicalCodeql}
        /\ fs[MetricsPath] \in {TypicalMetrics}}

\* The working tree of the repository the program is run in.
CycleTree ==
    <<[dir |-> <<"src">>, name |-> "main.js"], [dir |-> <<>>, name |-> "test.py"]>>

Init ==
    /\ pc = "start"
    /\ MainIdle
    /\ files \in CycleFileSystems
    /\ files0 = files
    /\ tree = CycleTree
    /\ logs = ""
    /\ diagnosis = NoDiagnosis
    /\ detected = <<>>

aside == <<logs, diagnosis, tree, detected, files0>>

\* main up to the creation of the resolver
Main ==
    /\ pc = "start"
    /\ \E entry \in EntryPoints, flag \in TokenInputs, env \in TokenInputs, dry \in BOOLEAN :
           /\ entry = "ci_failure_resolver" => (flag = "" /\ ~dry)
           /\ cfg' = [entry |-> entry, dry_run |-> dry,
                      github_token |-> ResolveToken(entry, flag, env)]
           /\ IF ResolveToken(entry, flag, env) = ""
              THEN pc' = "exit" /\ exitStatus' = NoTokenStatus(entry)
              ELSE pc' = "fetch" /\ UNCHANGED exitStatus
    /\ UNCHANGED <<returned, netCalls, failed_runs, runIdx, patterns, fixes, fixIdx,
                   fix_results, invoked, analyzed, fixes_applied, files, reportFiles,
                   aside>>

\* With the test of line 412 left out, the cycle goes on to plan for no runs.
AfterFetchNoTest(runs) == IF runs = <<>> THEN "plan" ELSE "analyze"

\* `if not failed_runs: return` (run_resolution_cycle line 412,
\* run_resolver.main line 54)
AfterFetch(runs) == IF runs = <<>> THEN "exit" ELSE "analyze"

\* get_failed_runs and the test of its result
GetFailedRuns ==
    /\ pc = "fetch"
    /\ \E response \in RunsResponses :
           /\ failed_runs' = get_failed_runs(response)
           /\ netCalls' = [netCalls EXCEPT !.runs = @ + 1]
           /\ pc' = AfterFetch(get_failed_runs(response))
           /\ returned' = IF AfterFetch(get_failed_runs(response)) = "exit" /\ ~cfg.dry_run
                          THEN "No recent failed runs found."
                          ELSE returned
    /\ UNCHANGED <<cfg, exitStatus, runIdx, patterns, fixes, fixIdx, fix_results,
                   invoked, analyzed, fixes_applied, files, reportFiles, aside>>

RECURSIVE FailedJobLogs(_, _)
FailedJobLogs(run, jobs) ==
    IF jobs = <<>> THEN <<>>
    ELSE (IF jobs[1].conclusion = "failure"
          THEN <<[run |-> run.id, name |-> run.name, text |-> get_job_logs(jobs[1].log)]>>
          ELSE <<>>)
         \o FailedJobLogs(run, Tail(jobs))

\* analyze_failure_patterns: one run of the loop of line 88, the forge
\* answering the GET of the run's jobs with one of responses
AnalyzeRunWith(responses) ==
    /\ pc = "analyze"
    /\ runIdx <= Len(failed_runs)
    /\ \E response \in responses :
           LET jobs == get_run_jobs(response)
           IN  /\ patterns' = AnalyzeRunJobs(patterns, failed_runs[runIdx], jobs)
               /\ netCalls' = [netCalls EXCEPT !.jobs = @ + 1,
                                               !.logs = @ + Cardinality(FailedJobs(jobs))]
               /\ analyzed' = analyzed \o FailedJobLogs(failed_runs[runIdx], jobs)
    /\ runIdx' = runIdx + 1
    /\ pc' = IF runIdx = Len(failed_runs) THEN "plan" ELSE "analyze"
    /\ UNCHANGED <<cfg, exitStatus, returned, failed_runs, fixes, fixIdx, fix_results,
                   invoked, fixes_applied, files, reportFiles, aside>>

AnalyzeRun == AnalyzeRunWith(JobsResponses)

\* A dry run that goes on to apply the plan.
AfterPlanAlwaysApply(dry_run) == "apply"

\* run_resolver.main lines 49-76: the dry run prints the plan and ends;
\* run_resolution_cycle goes on to apply_fixes
AfterPlan(dry_run) == IF dry_run THEN "exit" ELSE "apply"

\* generate_fixes
Plan ==
    /\ pc = "plan"
    /\ fixes' = generate_fixes(patterns)
    /\ pc' = AfterPlan(cfg.dry_run)
    /\ UNCHANGED <<cfg, exitStatus, returned, netCalls, failed_runs, runIdx, patterns,
                   fixIdx, fix_results, invoked, analyzed, fixes_applied, files,
                   reportFiles, aside>>

\* Only a fix that succeeded is written to the results.
RecordSuccessOnly(results, fix, success) ==
    IF success THEN DictSet(results, fix.description, success) ELSE results

\* results[fix['description']] = success (lines 353, 362)
RecordResult(results, fix, success) == DictSet(results, fix.description, success)

\* apply_fixes: one fix of the loop of line 349.  The routines catch every
\* Exception themselves, so the call returns True or False.
ApplyFix ==
    /\ pc = "apply"
    /\ fixIdx <= Len(fixes)
    /\ \E w1, w2 \in WriteOutcomes :
           LET fix == fixes[fixIdx]
               r == CallFix(fix.action, files, fixes_applied, tree, w1, w2)
           IN  /\ files' = r.files
               /\ fixes_applied' = r.applied
               /\ invoked' = Append(invoked, [fix |-> fix.action, ok |-> r.ok,
                                              ioError |-> r.ioError])
               /\ fix_results' = RecordResult(fix_results, fix, r.ok)
    /\ fixIdx' = fixIdx + 1
    /\ UNCHANGED <<pc, cfg, exitStatus, returned, netCalls, failed_runs, runIdx,
                   patterns, fixes, analyzed, reportFiles, aside>>

\* generate_report, the write of the report file and the return (lines
\* 427-434); an error of the write leaves the cycle as an exception, which
\* ends the process with status 1.
SaveReport ==
    /\ pc = "apply"
    /\ fixIdx > Len(fixes)
    /\ \E w \in WriteOutcomes :
           /\ reportFiles' = IF w = "denied" THEN reportFiles ELSE reportFiles + 1
           /\ returned' = IF w = "ok"
                          THEN generate_report(patterns, fix_results, fixes_applied)
                          ELSE returned
           /\ exitStatus' = IF w = "ok" THEN 0 ELSE 1
    /\ pc' = "exit"
    /\ UNCHANGED <<cfg, netCalls, failed_runs, runIdx, patterns, fixes, fixIdx,
                   fix_results, invoked, analyzed, fixes_applied, files, aside>>

Next == Main \/ GetFailedRuns \/ AnalyzeRun \/ Plan \/ ApplyFix \/ SaveReport

Spec == Init /\ [][Next]_vars

-----------------------------------------------------------------------------
(* generate_fixes, apply_fixes and generate_report on any bucket set: the  *)
(* cycle from line 419 on.                                                 *)

\* What a bucket may hold.
BucketContents ==
    { <<>>,
      <<"Unknown failure">>,
      <<"Run 101: Permission denied", "Unknown failure">> }

BucketSets ==
    {b \in [KeySet -> BucketContents] :
        /\ Len(b["action_version_issues"]) <= 1
        /\ Len(b["token_issues"]) <= 1}

PlanFileSystems ==
    {fs \in [WorkflowPaths -> {Absent, Corrupt, TypicalReadme, TypicalCodeql, TypicalMetrics}] :
        /\ fs[ReadmePath] \in {Absent, TypicalReadme}
        /\ fs[CodeqlPath] \in {TypicalCodeql}
        /\ fs[MetricsPath] \in {Corrupt, TypicalMetrics}}

InitPlan ==
    /\ pc = "plan"
    /\ cfg = [entry |-> "ci_failure_resolver", dry_run |-> FALSE,
              github_token |-> "ghp_token"]
    /\ patterns \in BucketSets
    /\ files \in PlanFileSystems
    /\ files0 = files
    /\ tree = CycleTree
    /\ exitStatus = 0
    /\ returned = ""
    /\ netCalls = NoCalls
    /\ failed_runs = <<>>
    /\ runIdx = 1
    /\ fixes = <<>>
    /\ fixIdx = 1
    /\ fix_results = <<>>
    /\ invoked = <<>>
    /\ analyzed = <<>>
    /\ fixes_applied = <<>>
    /\ reportFiles = 0
    /\ logs = ""
    /\ diagnosis = NoDiagnosis
    /\ detected = <<>>

NextPlan == Plan \/ ApplyFix \/ SaveReport

SpecPlan == InitPlan /\ [][NextPlan]_vars

-----------------------------------------------------------------------------
(* Reading a report back.                                                  *)

NewlinesOf(s) == {i \in 1..Len(s) : SubSeq(s, i, i) = "\n"}

\* s.split("\n")
SplitLines(s) ==
    LET nl == NewlinesOf(s)
        At(k) == IF k = 0 THEN 0
                 ELSE IF k = Cardinality(nl) + 1 THEN Len(s) + 1
                 ELSE CHOOSE i \in nl : Cardinality({j \in nl : j < i}) = k - 1
    IN  [k \in 1..(Cardinality(nl) + 1) |-> SubSeq(s, At(k - 1) + 1, At(k) - 1)]

\* The lines between a heading and the next empty line.
Section(lines, heading) ==
    IF \A i \in 1..Len(lines) : lines[i] # heading THEN <<>>
    ELSE LET h == CHOOSE i \in 1..Len(lines) :
                      lines[i] = heading /\ \A j \in 1..(i - 1) : lines[j] # heading
             e == CHOOSE i \in (h + 1)..(Len(lines) + 1) :
                      /\ i = Len(lines) + 1 \/ lines[i] = ""
                      /\ \A j \in (h + 1)..(i - 1) : lines[j] # ""
         IN  SubSeq(lines, h + 1, e - 1)

OutcomeLine(description, success) ==
    "- " \o (IF success THEN "SUCCESS" ELSE "FAILED") \o ": " \o description

-----------------------------------------------------------------------------
(* Claims about the resolution cycle and the entry points.                 *)

\* The cycle ran to its end on one failed run with one failed job whose log
\* holds the three phrases, the two target files held workflows at the
\* start, every write ended well and the report was returned.
C2_Scenario ==
    /\ pc = "exit" /\ ~cfg.dry_run /\ cfg.github_token # ""
    /\ exitStatus = 0 /\ reportFiles = 1
    /\ Len(failed_runs) = 1
    /\ Len(analyzed) = 1
    /\ Contains("permission denied", analyzed[1].text)
    /\ Contains("jamesgeorge007/github-activity-readme", analyzed[1].text)
    /\ Contains("Error: Request failed", analyzed[1].text)
    /\ files0[ReadmePath].state = "ok"
    /\ files0[MetricsPath].state = "ok"
    /\ \A i \in 1..Len(invoked) : ~invoked[i].ioError

C2_Report ==
    LET lines == SplitLines(returned)
    IN  /\ Len(Section(lines, "### Profile Readme Failures")) = 1
        /\ Len(Section(lines, "### Permission Errors")) = 1
        /\ Section(lines, "## Fixes Applied") =
               << OutcomeLine("Update profile README workflow", TRUE),
                  OutcomeLine("Add missing workflow permissions", TRUE) >>

C2_ReadmeActivityRun ==
    /\ Contains("readme", Lower(analyzed[1].name))
    /\ Contains("activity", Lower(analyzed[1].name))

\* C2 as stated: one failed run with a single failed job whose log holds
\* "permission denied", the readme-activity vendor reference and "Error:
\* Request failed", the target files existing and parsing, gives a report
\* with one readme diagnosis line, one permission-error line and the two fix
\* outcomes (readme update, permission fix), both success -- whatever the
\* run is called.
C2_EndToEndAnyRunName == C2_Scenario => C2_Report

\* C2, amended: the same for a run whose display name contains "readme" and
\* "activity" (compared in lower case) and whose fixes and report are
\* written without an I/O error.
C2_EndToEndReadmeRun == (C2_Scenario /\ C2_ReadmeActivityRun) => C2_Report

C2_Witness ==
    /\ C2_Scenario
    /\ C2_ReadmeActivityRun
    /\ Len(invoked) = 2
    /\ files # files0

\* C3: when the listing of failed runs comes back empty, be it an empty
\* listing or an error of the call, the cycle ends at once returning "No
\* recent failed runs found.", with no workflow document modified, no
\* report file created, no fix routine called and no job or log fetched.
C3_EmptyListingShortCircuits ==
    (netCalls.runs = 1 /\ failed_runs = <<>> /\ ~cfg.dry_run) =>
        /\ pc = "exit"
        /\ returned = "No recent failed runs found."
        /\ files = files0
        /\ reportFiles = 0
        /\ invoked = <<>>
        /\ netCalls.jobs = 0
        /\ netCalls.logs = 0

C3_Witness ==
    /\ pc = "exit" /\ ~cfg.dry_run /\ cfg.github_token # ""
    /\ netCalls = [runs |-> 1, jobs |-> 0, logs |-> 0]
    /\ failed_runs = <<>>
    /\ returned = "No recent failed runs found."

FixKeys ==
    <<"profile_readme_failures", "codeql_failures", "metrics_failures",
      "permission_errors">>

NonEmptyFixKeys == SelectSeq(FixKeys, LAMBDA k : patterns[k] # <<>>)

DescriptorFor(key) ==
    CASE key = "profile_readme_failures" -> ReadmeFixDescriptor
      [] key = "codeql_failures" -> CodeqlFixDescriptor
      [] key = "metrics_failures" -> MetricsFixDescriptor
      [] key = "permission_errors" -> PermissionFixDescriptor

ReadmeCodeqlPermissionOnly ==
    \A k \in KeySet :
        (patterns[k] # <<>>) <=>
            k \in {"profile_readme_failures", "codeql_failures", "permission_errors"}

\* C4: the plan holds one descriptor for each non-empty bucket among readme,
\* codeql, metrics and permission errors, in that order, and nothing else,
\* so it is fixed by which buckets are empty; with exactly readme, codeql
\* and permission errors non-empty it is three descriptors tagged
\* workflow_update, workflow_update, permission_fix.
C4_PlanFollowsEmptiness ==
    pc # "plan" =>
        /\ Len(fixes) = Len(NonEmptyFixKeys)
        /\ \A i \in 1..Len(fixes) : fixes[i] = DescriptorFor(NonEmptyFixKeys[i])
        /\ ReadmeCodeqlPermissionOnly =>
               [i \in 1..Len(fixes) |-> fixes[i].type] =
                   <<"workflow_update", "workflow_update", "permission_fix">>

C4_Witness ==
    /\ pc = "apply"
    /\ ReadmeCodeqlPermissionOnly
    /\ Len(patterns["codeql_failures"]) = 2
    /\ Len(fixes) = 3

\* C8: apply_fixes calls the planned fixes once each in the order of the
\* plan, whatever the earlier ones returned, and keeps one outcome per fix
\* that is true exactly if the routine returned success; when the cycle has
\* ended every planned fix has been called, and the report it returns lists
\* each fix with its outcome.
C8_EveryFixRunOnceInOrder ==
    pc \in {"apply", "exit"} =>
        /\ Len(invoked) = fixIdx - 1
        /\ Len(invoked) <= Len(fixes)
        /\ pc = "exit" => Len(invoked) = Len(fixes)
        /\ \A i \in 1..Len(invoked) : invoked[i].fix = fixes[i].action
        /\ Len(fix_results) = Len(invoked)
        /\ \A i \in 1..Len(invoked) :
               fix_results[i] = [key |-> fixes[i].description, value |-> invoked[i].ok]
        /\ (pc = "exit" /\ exitStatus = 0) =>
               Section(SplitLines(returned), "## Fixes Applied") =
                   [i \in 1..Len(fixes) |->
                       OutcomeLine(fixes[i].description, invoked[i].ok)]

\* A report returned after a failed fix that was followed by another fix.
C8_Witness ==
    /\ pc = "exit" /\ exitStatus = 0
    /\ Len(fixes) = 4
    /\ ~invoked[1].ok
    /\ invoked[2].ok
    /\ ~invoked[3].ok
    /\ Contains(OutcomeLine(fixes[1].description, FALSE), returned)

\* C9: in a dry run no fix routine is called, no workflow document is
\* written and no report file is saved, whatever the forge returns.
C9_DryRunWritesNothing ==
    cfg.dry_run =>
        /\ invoked = <<>>
        /\ fix_results = <<>>
        /\ fixes_applied = <<>>
        /\ files = files0
        /\ reportFiles = 0

\* A dry run that ended with a plan of fixes.
C9_Witness ==
    /\ pc = "exit" /\ cfg.dry_run
    /\ netCalls.logs > 0
    /\ Len(fixes) >= 2

\* C10 as stated: an entry point that finds no credential ends with a
\* status other than zero, and no network call was made.
C10_NoTokenExitsNonZero ==
    (pc = "exit" /\ cfg.github_token = "") =>
        /\ exitStatus # 0
        /\ netCalls = NoCalls

-----------------------------------------------------------------------------
(* analyze_failure_patterns on one run with any jobs.                      *)

AnalyzeRunNames ==
    { "Update README with Recent Activity", "README", "CodeQL", "Update Stats",
      "Metrics", "CI" }

AnalyzeLogs ==
    { "Error: Permission denied",
      "Action not found",
      "Token expired",
      "403 Forbidden: deprecated action, invalid token",
      "Build failed" }

AnalyzeJobPool ==
    {[conclusion |-> "success",
      log |-> [ok |-> TRUE, text |-> "403 Forbidden: deprecated action, invalid token"]]}
    \cup {[conclusion |-> "failure", log |-> [ok |-> TRUE, text |-> t]] : t \in AnalyzeLogs}
    \cup {[conclusion |-> "failure", log |-> [ok |-> FALSE, text |-> ""]]}

AnalyzeResponses ==
    {[ok |-> FALSE, jobs |-> <<>>]}
    \cup {[ok |-> TRUE, jobs |-> jobs] : jobs \in SeqsUpTo(AnalyzeJobPool, MaxAnalyzeJobs)}

InitAnalyze ==
    /\ pc = "analyze"
    /\ cfg = [entry |-> "ci_failure_resolver", dry_run |-> FALSE,
              github_token |-> "ghp_token"]
    /\ \E name \in AnalyzeRunNames : failed_runs = <<[id |-> RunId(1), name |-> name]>>
    /\ patterns = EmptyPatterns
    /\ netCalls = [runs |-> 1, jobs |-> 0, logs |-> 0]
    /\ files = TypicalFiles
    /\ files0 = files
    /\ tree = CycleTree
    /\ exitStatus = 0
    /\ returned = ""
    /\ runIdx = 1
    /\ fixes = <<>>
    /\ fixIdx = 1
    /\ fix_results = <<>>
    /\ invoked = <<>>
    /\ analyzed = <<>>
    /\ fixes_applied = <<>>
    /\ reportFiles = 0
    /\ logs = ""
    /\ diagnosis = NoDiagnosis
    /\ detected = <<>>

AnalyzePatterns == AnalyzeRunWith(AnalyzeResponses)

NextAnalyze == AnalyzePatterns

SpecAnalyze == InitAnalyze /\ [][NextAnalyze]_vars

-----------------------------------------------------------------------------
(* Claims about analyze_failure_patterns.                                  *)

CategoryKeys == {"profile_readme_failures", "codeql_failures", "metrics_failures"}

\* The category bucket a run of this display name feeds, "" for none.
CategoryOfRun(name) ==
    LET lower == Lower(name)
    IN  IF Contains("readme", lower) /\ Contains("activity", lower)
        THEN "profile_readme_failures"
        ELSE IF Contains("codeql", lower) THEN "codeql_failures"
        ELSE IF Contains("metrics", lower) \/ Contains("stats", lower)
        THEN "metrics_failures"
        ELSE ""

PermissionCondition(text) ==
    Contains("permission", Lower(text)) \/ Contains("forbidden", Lower(text))

ActionVersionCondition(text) ==
    /\ Contains("action", Lower(text))
    /\ Contains("deprecated", Lower(text)) \/ Contains("not found", Lower(text))

TokenCondition(text) ==
    /\ Contains("token", Lower(text))
    /\ Contains("invalid", Lower(text)) \/ Contains("expired", Lower(text))

\* The logs fetched in this step: one for each failed job of the run.
FetchedNow == SubSeq(analyzed', Len(analyzed) + 1, Len(analyzed'))

AddedNow(key) == Len(patterns'[key]) - Len(patterns[key])

\* C11: in a step of analyze_failure_patterns on one run, each cross-cutting
\* bucket (permission, action version, token) gains one entry for each
\* failed job whose lowercased log meets that bucket's condition, whatever
\* the run is called and whatever the other conditions say; the one category
\* bucket the run's name selects gains one entry per failed job and the
\* other category buckets none (none at all for a name that matches no
\* category); so a failed job adds at most one category entry and at most
\* four entries, and a job that did not fail adds nothing.
C11_CrossCuttingIndependent ==
    [][(pc = "analyze" /\ runIdx' = runIdx + 1) =>
          LET fetched == FetchedNow
              failed == 1..Len(fetched)
              category == CategoryOfRun(failed_runs[runIdx].name)
          IN  /\ Len(fetched) = netCalls'.logs - netCalls.logs
              /\ \A k \in KeySet :
                     SubSeq(patterns'[k], 1, Len(patterns[k])) = patterns[k]
              /\ AddedNow("permission_errors")
                     = Cardinality({i \in failed : PermissionCondition(fetched[i].text)})
              /\ AddedNow("action_version_issues")
                     = Cardinality({i \in failed : ActionVersionCondition(fetched[i].text)})
              /\ AddedNow("token_issues")
                     = Cardinality({i \in failed : TokenCondition(fetched[i].text)})
              /\ \A k \in CategoryKeys :
                     AddedNow(k) = IF k = category THEN Len(fetched) ELSE 0
              /\ AddedNow("profile_readme_failures") + AddedNow("codeql_failures")
                     + AddedNow("metrics_failures") <= Len(fetched)
              /\ AddedNow("profile_readme_failures") + AddedNow("codeql_failures")
                     + AddedNow("metrics_failures") + AddedNow("permission_errors")
                     + AddedNow("action_version_issues") + AddedNow("token_issues")
                     <= 4 * Len(fetched)
      ]_vars

\* A run named "CI" with one failed job whose log meets all three
\* conditions, next to a job that succeeded.
C11_Witness ==
    /\ pc = "plan"
    /\ failed_runs[1].name = "CI"
    /\ netCalls.jobs = 1 /\ netCalls.logs = 1
    /\ Len(analyzed) = 1
    /\ \A k \in CategoryKeys : patterns[k] = <<>>
    /\ patterns["permission_errors"] = <<"Run 101: Permission denied">>
    /\ patterns["action_version_issues"] = <<"Run 101: Action version issue">>
    /\ patterns["token_issues"] = <<"Run 101: Token issue">>

-----------------------------------------------------------------------------
(* The classifiers as a list of phrases tried in order.                    *)

ReadmeCatalog ==
    << [phrases |-> {"Error: Request failed"},
        diagnosis |-> "API request failure - possibly rate limited or token issue"],
       [phrases |-> {"Error: Cannot read"},
        diagnosis |-> "README file access issue - check file permissions"],
       [phrases |-> {"Error: No recent activity"},
        diagnosis |-> "No recent activity found - this might be expected"] >>

CodeqlCatalog ==
    << [phrases |-> {"No source code was seen during the build"},
        diagnosis |-> "No source code found for specified languages"],
       [phrases |-> {"Language 'javascript' not found", "Language 'python' not found"},
        diagnosis |-> "Specified languages not present in repository"],
       [phrases |-> {"Autobuild failed"},
        diagnosis |-> "Autobuild process failed - may need manual build steps"] >>

MetricsCatalog ==
    << [phrases |-> {"Error: Request failed"},
        diagnosis |-> "Metrics API request failed"],
       [phrases |-> {"Error: Invalid token"},
        diagnosis |-> "Invalid or insufficient token permissions"],
       [phrases |-> {"Error: Rate limit"},
        diagnosis |-> "Rate limit exceeded"] >>

Matches(entry, text) == \E phrase \in entry.phrases : Contains(phrase, text)

\* The diagnosis of the first entry of the catalog with a phrase in the
\* text, unknown for none.
FirstListed(catalog, unknown, text) ==
    IF \A i \in 1..Len(catalog) : ~Matches(catalog[i], text) THEN unknown
    ELSE LET first == CHOOSE i \in 1..Len(catalog) :
                          /\ Matches(catalog[i], text)
                          /\ \A j \in 1..(i - 1) : ~Matches(catalog[j], text)
         IN  catalog[first].diagnosis

\* C12 as stated: each classifier returns the diagnosis of the first listed
\* phrase present in the text (readme: API failure, file access, no
\* activity; CodeQL: no source, language not found, autobuild failed;
\* metrics: request failed, invalid token, rate limit) and the unknown
\* diagnosis when none is present.
C12_FirstListedPhraseWins ==
    pc = "classified" =>
        diagnosis.text =
            CASE diagnosis.by = "readme" ->
                     FirstListed(ReadmeCatalog, "Unknown README workflow failure", logs)
              [] diagnosis.by = "codeql" ->
                     FirstListed(CodeqlCatalog, "Unknown CodeQL failure", logs)
              [] diagnosis.by = "metrics" ->
                     FirstListed(MetricsCatalog, "Unknown metrics failure", logs)

-----------------------------------------------------------------------------
(* Claims about the CodeQL fix and the permission fix.                     *)

\* This step is a call of the fix named that returns success.
FixSucceeds(name) ==
    /\ Len(invoked') = Len(invoked) + 1
    /\ invoked'[Len(invoked')].fix = name
    /\ invoked'[Len(invoked')].ok

\* C13 as stated: after a successful CodeQL fix, with no language detected
\* the triggers are manual dispatch only and the jobs are unchanged;
\* otherwise the triggers are unchanged and every job of the document has a
\* language matrix equal to the detected list.
C13_CodeqlMatrixEveryJob ==
    [][FixSucceeds("codeql") =>
          LET old == files[CodeqlPath].doc
              new == files'[CodeqlPath].doc
              languages == _detect_repository_languages(tree)
          IN  /\ files'[CodeqlPath].state = "ok"
              /\ IF languages = <<>>
                 THEN new.on = {"workflow_dispatch"} /\ new.jobs = old.jobs
                 ELSE /\ new.on = old.on
                      /\ Len(new.jobs) = Len(old.jobs)
                      /\ \A j \in 1..Len(new.jobs) :
                             new.jobs[j].matrix = [present |-> TRUE, language |-> languages]
      ]_vars

\* C13 amended: the same, but with a language detected it is every job that
\* has a strategy matrix whose language list becomes the detected list; a
\* job without a matrix is left as it was.
C13_CodeqlMatrixWherePresent ==
    [][FixSucceeds("codeql") =>
          LET old == files[CodeqlPath].doc
              new == files'[CodeqlPath].doc
              languages == _detect_repository_languages(tree)
          IN  /\ files'[CodeqlPath].state = "ok"
              /\ IF languages = <<>>
                 THEN new.on = {"workflow_dispatch"} /\ new.jobs = old.jobs
                 ELSE /\ new.on = old.on
                      /\ Len(new.jobs) = Len(old.jobs)
                      /\ \A j \in 1..Len(new.jobs) :
                             IF old.jobs[j].matrix.present
                             THEN /\ new.jobs[j].matrix =
                                         [present |-> TRUE, language |-> languages]
                                  /\ new.jobs[j].steps = old.jobs[j].steps
                                  /\ new.jobs[j].permissions = old.jobs[j].permissions
                             ELSE new.jobs[j] = old.jobs[j]
      ]_vars

\* A first call of the CodeQL fix that succeeded in a repository holding
\* python only and rewrote a matrix that listed go.
C13_Witness ==
    /\ Len(invoked) = 1
    /\ invoked[1].fix = "codeql" /\ invoked[1].ok
    /\ tree = <<[dir |-> <<>>, name |-> "test.py"]>>
    /\ files0[CodeqlPath].state = "ok"
    /\ Len(files0[CodeqlPath].doc.jobs) = 1
    /\ files0[CodeqlPath].doc.jobs[1].matrix.language = <<"go">>
    /\ files[CodeqlPath].doc.jobs[1].matrix.language = <<"python">>

PermissionPaths == {ReadmePath, MetricsPath}

\* This step is a call of the permission fix, whatever it returns.
PermissionFixCalled ==
    /\ Len(invoked') = Len(invoked) + 1
    /\ invoked'[Len(invoked')].fix = "permissions"

\* The file at p after the step, against the file before it: every job has
\* a permissions block, a job that lacked one has contents-write and
\* actions-read, and a job that had one is as it was.
PermissionsInjected(p) ==
    LET old == files[p].doc
        new == files'[p].doc
    IN  /\ files'[p].state = "ok"
        /\ new.on = old.on
        /\ Len(new.jobs) = Len(old.jobs)
        /\ \A j \in 1..Len(new.jobs) :
               /\ new.jobs[j].permissions.present
               /\ IF old.jobs[j].permissions.present
                  THEN new.jobs[j] = old.jobs[j]
                  ELSE /\ new.jobs[j].permissions.grants =
                              {<<"contents", "write">>, <<"actions", "read">>}
                       /\ new.jobs[j].steps = old.jobs[j].steps
                       /\ new.jobs[j].matrix = old.jobs[j].matrix

BothAbsentNoWrite ==
    (\A p \in PermissionPaths : files[p].state = "absent") =>
        /\ invoked'[Len(invoked')].ok
        /\ files' = files
        /\ fixes_applied' = fixes_applied

-----------------------------------------------------------------------------
(* Claims about the notes of fixes_applied and the order of the fixes.     *)

\* C15 as stated: a call of a fix routine that returns failure appends no
\* note to fixes_applied, so that the notes the report lists under
\* "Additional Changes" all come from fixes marked as succeeded.
C15_FailedFixAppendsNoNote ==
    [][(Len(invoked') = Len(invoked) + 1 /\ ~invoked'[Len(invoked')].ok)
          => fixes_applied' = fixes_applied
      ]_vars

Planned(action) == \E i \in 1..Len(fixes) : fixes[i].action = action

\* The permission fix is called only after the readme fix, where both are
\* planned.
ReadmeBeforePermission ==
    (pc \in {"apply", "exit"} /\ Planned("readme") /\ Planned("permissions")) =>
        \A j \in 1..Len(invoked) :
            invoked[j].fix = "permissions" =>
                \E i \in 1..(j - 1) : invoked[i].fix = "readme"

\* The jobs of the profile-readme workflow that had no permissions block and
\* hold a readme-activity step when the cycle starts.
BareReadmeJobs ==
    {j \in 1..Len(files0[ReadmePath].doc.jobs) :
        /\ ~files0[ReadmePath].doc.jobs[j].permissions.present
        /\ \E i \in 1..Len(files0[ReadmePath].doc.jobs[j].steps) :
               Contains("jamesgeorge007/github-activity-readme",
                        files0[ReadmePath].doc.jobs[j].steps[i].uses)}

ContentsWriteOnly(j) ==
    /\ files[ReadmePath].state = "ok"
    /\ files[ReadmePath].doc.jobs[j].permissions =
           [present |-> TRUE, grants |-> {<<"contents", "write">>}]

\* C16 as stated: where both are planned the readme fix runs before the
\* permission fix, and a job of the profile-readme workflow that had no
\* permissions block and holds the readme-activity step ends the cycle with
\* the block {contents: write} only (read of a file that can be loaded when
\* the cycle ends).
C16_ReadmeFixFirstAlways ==
    /\ ReadmeBeforePermission
    /\ (pc = "exit" /\ Planned("readme") /\ Planned("permissions")
          /\ files[ReadmePath].state = "ok") =>
           \A j \in BareReadmeJobs : ContentsWriteOnly(j)

\* C16 amended: the same where the readme fix returned success.
C16_ReadmeFixFirstOnSuccess ==
    /\ ReadmeBeforePermission
    /\ (pc = "exit" /\ Planned("readme") /\ Planned("permissions")
          /\ files[ReadmePath].state = "ok" /\ invoked[1].ok) =>
           \A j \in BareReadmeJobs : ContentsWriteOnly(j)

\* A cycle that ended with both fixes succeeded on a job that had no block.
C16_Witness ==
    /\ pc = "exit"
    /\ Planned("readme") /\ Planned("permissions")
    /\ \A i \in 1..Len(invoked) : invoked[i].ok
    /\ BareReadmeJobs # {}
    /\ \A j \in BareReadmeJobs : ContentsWriteOnly(j)
    /\ files[MetricsPath].state = "ok"
    /\ files[MetricsPath].doc.jobs[1].permissions = BothPermissions

=============================================================================
